---- MODULE Spec2Model ----
(***************************************************************************)
(* A model of server.js: the session registry (createSession,              *)
(* destroySession, the expiry timers, the DELETE handler and the           *)
(* SIGINT/SIGTERM sweep) and the per-viewer screencast bridge              *)
(* (stopStream, attachAndStream, the message and close handlers and the    *)
(* 700ms watcher).  Every await of the source is a step of its own, so     *)
(* that the handlers interleave exactly where the event loop lets them.    *)
(* findActivePageWs with its probes and the two DevTools polling loops     *)
(* (waitForDevtools, entrypoint.sh) are also followed step by step.        *)
(***************************************************************************)
EXTENDS Integers, Sequences, FiniteSets, TLC

\* ------------------------------------------------------------- bounds
MaxCreates == 2
MaxDeletes == 2
MaxDur == 1
MaxFixedPort == 1
MaxSignals == 1
MaxTargets == 2
MaxConns == 2
MaxTasks == 2
MaxList == 3
MaxAttempts == 3

\* --------------------------------------------------- program constants
DefaultDurationSec == 3600
ProbeAttempts == 60

Calls == 1..MaxCreates            \* the createSession calls, each launching its own browser
Ids == Calls                      \* a session id names the browser whose endpoint answered
ApiCalls == 1..MaxDeletes         \* the DELETE /session/:id requests in flight at a time
Signals == 1..MaxSignals          \* the SIGINT/SIGTERM deliveries

\* A request option: absent from the body, or present with a value.
Absent == [set |-> FALSE, val |-> 0]
Given(v) == [set |-> TRUE, val |-> v]

RawDurations == {Absent} \cup {Given(v) : v \in 0..MaxDur}
RawPorts == {Absent} \cup {Given(v) : v \in 0..MaxFixedPort}
RawStealths == {[set |-> FALSE, val |-> FALSE], [set |-> TRUE, val |-> FALSE],
                [set |-> TRUE, val |-> TRUE]}

\* The destroySession invocations: one per DELETE request, one per expiry
\* timer, one (at a time) per signal handler.
Threads == ({"api"} \X ApiCalls) \cup ({"timer"} \X Calls) \cup ({"sig"} \X Signals)

VARIABLES
  cpc,        \* createSession: where each call is
  copt,       \* createSession: the options of each call, defaults applied
  cport,      \* createSession: `port`
  cid,        \* createSession: `id`, once the probe has answered
  bstate,     \* the browser process of each call: "none", "running", "closed"
  bbound,     \* whether that browser holds its debugging port
  bstealth,   \* whether that browser was launched with the stealth plugin
  plugins,    \* chromium.plugins: TRUE while the stealth plugin is registered
  closeCalls, \* how often browser.close() was called on each browser
  timer,      \* the setTimeout handle of each call
  registry,   \* the registry Map: id -> record
  d,          \* the destroySession invocations
  reply,      \* the last answer of the DELETE handler
  sweep,      \* the signal handlers
  exited      \* process.exit(0) was called

svars == <<cpc, copt, cport, cid, bstate, bbound, bstealth, plugins, closeCalls,
           timer, registry, d, reply, sweep, exited>>

NoReply == [id |-> 0, status |-> 0]
NoOpt == [durationSec |-> 0, durUnset |-> FALSE, stealth |-> TRUE]
NoTimer == [st |-> "none", left |-> 0]
IdleThread == [st |-> "idle", id |-> 0, rec |-> 0, hasTimer |-> FALSE, ret |-> FALSE]
IdleSweep == [st |-> "idle", todo |-> {}, live |-> {}]

\* ---------------------------------------------------------------------
\* createSession's parameter defaults (server.js 23-32)
\* ---------------------------------------------------------------------
DurationSecDefaultZero(raw) == IF raw.set THEN raw.val ELSE 0

DurationSec(raw) == IF raw.set THEN raw.val ELSE DefaultDurationSec

Stealth(raw) == IF raw.set THEN raw.val ELSE TRUE

\* get-port hands out a port nothing listens on; no two calls get the same one.
GetPort(c) == MaxFixedPort + c

\* `fixedPort || (await getPort())`: 0 and unset are both falsy.
HasFixedPort(raw) == raw.set /\ raw.val # 0

\* The browser that listens on port p, 0 if none does.
PortOwner(p) ==
  LET owners == {k \in Calls : bstate[k] = "running" /\ bbound[k] /\ cport[k] = p}
  IN IF owners = {} THEN 0 ELSE CHOOSE k \in owners : TRUE

\* ---------------------------------------------------------------------
\* waitForDevtools (server.js 12-21): upAt is the first attempt (counted
\* from 0) at which the fetch of /json/version answers ok.
\* ---------------------------------------------------------------------
RECURSIVE WaitLoop(_, _, _)
WaitLoop(i, attempts, upAt) ==
  IF i < attempts
  THEN IF i >= upAt
       THEN [ok |-> TRUE, tries |-> i + 1]
       ELSE WaitLoop(i + 1, attempts, upAt)
  ELSE [ok |-> FALSE, tries |-> i]

WaitForDevtools(attempts, upAt) == WaitLoop(0, attempts, upAt)

UpAtChoices == {0, ProbeAttempts - 1, ProbeAttempts}

\* expiresAt (62-65), as the seconds from creation; 0 stands for null.
ExpiresAt(durationSec) == IF durationSec > 0 THEN durationSec ELSE 0

\* the timer of lines 68-74
TimerFor(durationSec) ==
  IF durationSec > 0 THEN [st |-> "armed", left |-> durationSec] ELSE NoTimer

SessInit ==
  /\ cpc = [c \in Calls |-> "idle"]
  /\ copt = [c \in Calls |-> NoOpt]
  /\ cport = [c \in Calls |-> 0]
  /\ cid = [c \in Calls |-> 0]
  /\ bstate = [c \in Calls |-> "none"]
  /\ bbound = [c \in Calls |-> FALSE]
  /\ bstealth = [c \in Calls |-> FALSE]
  /\ plugins = TRUE
  /\ closeCalls = [c \in Calls |-> 0]
  /\ timer = [c \in Calls |-> NoTimer]
  /\ registry = [i \in {} |-> 0]
  /\ d = [t \in Threads |-> IdleThread]
  /\ reply = NoReply
  /\ sweep = [s \in Signals |-> IdleSweep]
  /\ exited = FALSE

\* ---------------------------------------------------------------------
\* createSession (server.js 23-86)
\* ---------------------------------------------------------------------
InRegistry(c) ==
  \E i \in DOMAIN registry : registry[i].call = c

\* line 36, then the call of chromium.launch of line 38
BeginLaunch(c, stealth) ==
  /\ plugins' = (plugins /\ stealth)
  /\ bstealth' = [bstealth EXCEPT ![c] = plugins /\ stealth]
  /\ cpc' = [cpc EXCEPT ![c] = "launch"]

\* POST /session arrives: the defaults are applied and line 33 runs; with a
\* fixed port there is no await before chromium.launch is called.
CreateStart(c, stealths) ==
  /\ ~exited
  /\ cpc[c] = "idle"
  /\ c > 1 => cpc[c - 1] # "idle"
  /\ \E rd \in RawDurations, rs \in stealths, rp \in RawPorts :
       /\ copt' = [copt EXCEPT ![c] = [durationSec |-> DurationSec(rd),
                                       durUnset |-> ~rd.set,
                                       stealth |-> Stealth(rs)]]
       /\ IF HasFixedPort(rp)
          THEN /\ cport' = [cport EXCEPT ![c] = rp.val]
               /\ BeginLaunch(c, Stealth(rs))
          ELSE /\ cpc' = [cpc EXCEPT ![c] = "port"]
               /\ UNCHANGED <<cport, plugins, bstealth>>
  /\ UNCHANGED <<cid, bstate, bbound, closeCalls, timer, registry, d, reply, sweep, exited>>

\* `await getPort()` resolves (line 33)
CreatePort(c) ==
  /\ ~exited
  /\ cpc[c] = "port"
  /\ cport' = [cport EXCEPT ![c] = GetPort(c)]
  /\ BeginLaunch(c, copt[c].stealth)
  /\ UNCHANGED <<copt, cid, bstate, bbound, closeCalls, timer, registry, d, reply, sweep, exited>>

\* `await chromium.launch(...)` settles (38-49).  The launch may reject, and
\* then no process is left.  When it resolves the browser runs; it listens on
\* its debugging port only if no other running browser holds that port, and
\* line 50 calls newPage.
CreateLaunched(c) ==
  /\ ~exited
  /\ cpc[c] = "launch"
  /\ \/ /\ cpc' = [cpc EXCEPT ![c] = "failed"]
        /\ UNCHANGED <<bstate, bbound>>
     \/ /\ bstate' = [bstate EXCEPT ![c] = "running"]
        /\ bbound' = [bbound EXCEPT ![c] = (PortOwner(cport[c]) = 0)]
        /\ cpc' = [cpc EXCEPT ![c] = "page"]
  /\ UNCHANGED <<copt, cport, cid, bstealth, plugins, closeCalls, timer, registry, d,
                 reply, sweep, exited>>

\* `await browser.newPage(...)` settles (50-54); a rejection leaves
\* createSession by the exception, and line 57 calls waitForDevtools otherwise.
CreatePaged(c) ==
  /\ ~exited
  /\ cpc[c] = "page"
  /\ \/ cpc' = [cpc EXCEPT ![c] = "probe"]
     \/ cpc' = [cpc EXCEPT ![c] = "failed"]
  /\ UNCHANGED <<copt, cport, cid, bstate, bbound, bstealth, plugins, closeCalls, timer,
                 registry, d, reply, sweep, exited>>

\* `await waitForDevtools(port, 60, 150)` settles (57-58).  Whoever listens on
\* the port answers; the id of line 61 is the last segment of the answering
\* browser's webSocketDebuggerUrl.
CreateProbed(c) ==
  /\ ~exited
  /\ cpc[c] = "probe"
  /\ \E upAt \in UpAtChoices :
       LET owner == PortOwner(cport[c])
           r == WaitForDevtools(ProbeAttempts, IF owner = 0 THEN ProbeAttempts ELSE upAt)
       IN IF r.ok
          THEN /\ cid' = [cid EXCEPT ![c] = owner]
               /\ cpc' = [cpc EXCEPT ![c] = "pid"]
          ELSE /\ cpc' = [cpc EXCEPT ![c] = "failed"]
               /\ UNCHANGED cid
  /\ UNCHANGED <<copt, cport, bstate, bbound, bstealth, plugins, closeCalls, timer,
                 registry, d, reply, sweep, exited>>

\* the record of lines 76-84
SessionRecord(c) ==
  [call |-> c, port |-> cport[c], expiresAt |-> ExpiresAt(copt[c].durationSec),
   timer |-> TimerFor(copt[c].durationSec).st # "none"]

\* registry.set(id, rec)
RegistrySet(reg, id, rec) ==
  [i \in DOMAIN reg \cup {id} |-> IF i = id THEN rec ELSE reg[i]]

\* `await pidFromPort(port)` resolves (59); lines 61-85 then run without an
\* await: the timer is armed and the record is stored under the id.
CreateRegister(c) ==
  /\ ~exited
  /\ cpc[c] = "pid"
  /\ timer' = [timer EXCEPT ![c] = TimerFor(copt[c].durationSec)]
  /\ registry' = RegistrySet(registry, cid[c], SessionRecord(c))
  /\ cpc' = [cpc EXCEPT ![c] = "done"]
  /\ UNCHANGED <<copt, cport, cid, bstate, bbound, bstealth, plugins, closeCalls, d,
                 reply, sweep, exited>>

\* ---------------------------------------------------------------------
\* destroySession (server.js 88-97)
\* ---------------------------------------------------------------------
\* lines 89-90 when the id is not in the registry: `return false`
DestroyMissReturnsTrue(id) ==
  [st |-> "done", id |-> id, rec |-> 0, hasTimer |-> FALSE, ret |-> TRUE]

DestroyMiss(id) ==
  [st |-> "done", id |-> id, rec |-> 0, hasTimer |-> FALSE, ret |-> FALSE]

\* lines 89-92 up to the await: s is looked up, and s.browser.close() is
\* called when it is there.
DestroyEnter(reg, id) ==
  IF id \in DOMAIN reg
  THEN [st |-> "closing", id |-> id, rec |-> reg[id].call,
        hasTimer |-> reg[id].timer, ret |-> FALSE]
  ELSE DestroyMiss(id)

\* browser.close() was called on the browser of the record found
CloseCalled(cc, th) ==
  IF th.st = "closing" THEN [cc EXCEPT ![th.rec] = @ + 1] ELSE cc

\* line 94: `if (s.timer) clearTimeout(s.timer)`, s being the record read at line 89
ClearTimer(tm, th) ==
  IF th.hasTimer /\ tm[th.rec].st = "armed"
  THEN [tm EXCEPT ![th.rec] = [st |-> "cleared", left |-> 0]]
  ELSE tm

\* line 95: registry.delete(id)
RegistryDelete(reg, id) ==
  [i \in DOMAIN reg \ {id} |-> reg[i]]

\* lines 96: `return true`
DestroyDone(th) == [th EXCEPT !.st = "done", !.ret = TRUE]

\* browser.close() resolved (ok): the browser process is gone; or rejected
Closed(bs, th, ok) == [bs EXCEPT ![th.rec] = IF ok THEN "closed" ELSE @]

\* `await s.browser?.close()` settles (92-93): whether it resolved (ok) or
\* rejected, lines 94-96 run.
DestroyResume(t, ok) ==
  /\ d[t].st = "closing"
  /\ bstate' = Closed(bstate, d[t], ok)
  /\ timer' = ClearTimer(timer, d[t])
  /\ registry' = RegistryDelete(registry, d[t].id)

\* What is left of a destroySession that has returned: nothing; one that
\* awaits browser.close() is pending.
Pending(th) == IF th.st = "closing" THEN th ELSE IdleThread

\* lines 243-245: 404 {error: "not found"} when destroySession returned
\* false, {ok: true} otherwise
DeleteReply(th) == [id |-> th.id, status |-> IF th.ret THEN 200 ELSE 404]

\* DELETE /session/:id (241-249) calls destroySession(req.params.id); a
\* destroySession that returns at line 90 answers 404 without an await.
ApiDelete(k) ==
  /\ ~exited
  /\ d[<<"api", k>>].st = "idle"
  /\ \A j \in 1..(k - 1) : d[<<"api", j>>].st = "closing"
  /\ \E id \in Ids :
       LET th == DestroyEnter(registry, id)
       IN /\ d' = [d EXCEPT ![<<"api", k>>] = Pending(th)]
          /\ closeCalls' = CloseCalled(closeCalls, th)
          /\ reply' = IF th.st = "done" THEN DeleteReply(th) ELSE reply
  /\ UNCHANGED <<cpc, copt, cport, cid, bstate, bbound, bstealth, plugins, timer,
                 registry, sweep, exited>>

\* the DELETE handler's destroySession resumes and the handler answers
ApiDeleteResume(k) ==
  /\ ~exited
  /\ \E ok \in BOOLEAN : DestroyResume(<<"api", k>>, ok)
  /\ d' = [d EXCEPT ![<<"api", k>>] = IdleThread]
  /\ reply' = DeleteReply(DestroyDone(d[<<"api", k>>]))
  /\ UNCHANGED <<cpc, copt, cport, cid, bbound, bstealth, plugins, closeCalls, sweep,
                 exited>>

\* ---------------------------------------------------------------------
\* the expiry timer (server.js 70-73)
\* ---------------------------------------------------------------------
ArmedLeft == {timer[c].left : c \in {k \in Calls : timer[k].st = "armed" /\ timer[k].left > 0}}

\* Time passes, up to the next deadline of an armed timer.
Tick ==
  /\ ~exited
  /\ ArmedLeft # {}
  /\ LET step == CHOOSE m \in ArmedLeft : \A n \in ArmedLeft : m <= n
     IN timer' = [c \in Calls |->
                    IF timer[c].st = "armed" /\ timer[c].left > 0
                    THEN [timer[c] EXCEPT !.left = @ - step]
                    ELSE timer[c]]
  /\ UNCHANGED <<cpc, copt, cport, cid, bstate, bbound, bstealth, plugins, closeCalls,
                 registry, d, reply, sweep, exited>>

\* The timer's delay has passed: the callback calls destroySession(id).
TimerFire(c) ==
  /\ ~exited
  /\ timer[c].st = "armed"
  /\ timer[c].left = 0
  /\ timer' = [timer EXCEPT ![c] = [st |-> "fired", left |-> 0]]
  /\ LET th == DestroyEnter(registry, cid[c])
     IN /\ d' = [d EXCEPT ![<<"timer", c>>] = Pending(th)]
        /\ closeCalls' = CloseCalled(closeCalls, th)
  /\ UNCHANGED <<cpc, copt, cport, cid, bstate, bbound, bstealth, plugins, registry,
                 reply, sweep, exited>>

\* the timer callback's destroySession resumes
TimerResume(c) ==
  /\ ~exited
  /\ \E ok \in BOOLEAN : DestroyResume(<<"timer", c>>, ok)
  /\ d' = [d EXCEPT ![<<"timer", c>>] = IdleThread]
  /\ UNCHANGED <<cpc, copt, cport, cid, bbound, bstealth, plugins, closeCalls, reply,
                 sweep, exited>>

\* ---------------------------------------------------------------------
\* the SIGINT/SIGTERM handler (server.js 335-344)
\* ---------------------------------------------------------------------
\* process.exit(0) (342): the server is gone with its registry, its timers
\* and its pending handlers; the browser processes are as they were left.
Exit(bs) ==
  /\ bstate' = bs
  /\ registry' = [i \in {} |-> 0]
  /\ timer' = [c \in Calls |-> NoTimer]
  /\ cpc' = [c \in Calls |-> "exited"]
  /\ copt' = [c \in Calls |-> NoOpt]
  /\ cid' = [c \in Calls |-> 0]

\* The sessions that are live: created, and their browser process runs.
LiveSessions == {c \in Calls : cpc[c] = "done" /\ bstate[c] = "running"}

\* One turn of the loop of lines 337-341 over the ids still to visit, given
\* the registry as it is now; process.exit(0) of line 342 when none is left.
\* `live` remembers the sessions that were live when the signal arrived.
SweepTurn(s, todo, reg, live) ==
  IF todo = {}
  THEN /\ exited' = TRUE
       /\ sweep' = [x \in Signals |-> IdleSweep]
       /\ d' = [t \in Threads |-> IdleThread]
       /\ reply' = NoReply
       /\ UNCHANGED closeCalls
  ELSE \E id \in todo :
         LET th == DestroyEnter(reg, id)
         IN /\ d' = [d EXCEPT ![<<"sig", s>>] = Pending(th)]
            /\ closeCalls' = CloseCalled(closeCalls, th)
            /\ sweep' = [sweep EXCEPT ![s] = [st |-> "running", todo |-> todo \ {id},
                                               live |-> live]]
            /\ UNCHANGED <<exited, reply>>

\* The signal arrives: `[...registry.values()]` is taken and the first
\* destroySession is called.
Signal(s) ==
  /\ ~exited
  /\ sweep[s].st = "idle"
  /\ SweepTurn(s, DOMAIN registry, registry, LiveSessions)
  /\ IF exited' THEN Exit(bstate) ELSE UNCHANGED <<cpc, copt, cid, timer, registry, bstate>>
  /\ UNCHANGED <<cport, bbound, bstealth, plugins>>

\* `await destroySession(id)` of line 339 resumes, and the loop goes on.
SweepResume(s) ==
  /\ ~exited
  /\ sweep[s].st = "running"
  /\ LET t == <<"sig", s>>
         closing == d[t].st = "closing"
         reg == IF closing THEN RegistryDelete(registry, d[t].id) ELSE registry
         tm == IF closing THEN ClearTimer(timer, d[t]) ELSE timer
     IN \E ok \in (IF closing THEN BOOLEAN ELSE {TRUE}) :
          LET bs == IF closing THEN Closed(bstate, d[t], ok) ELSE bstate
          IN /\ SweepTurn(s, sweep[s].todo, reg, sweep[s].live)
             /\ IF exited'
                THEN Exit(bs)
                ELSE /\ registry' = reg
                     /\ timer' = tm
                     /\ bstate' = bs
                     /\ UNCHANGED <<cpc, copt, cid>>
  /\ UNCHANGED <<cport, bbound, bstealth, plugins>>

\* =====================================================================
\* The screencast bridge of one viewer connection (server.js 252-326)
\* =====================================================================
Targets == 1..MaxTargets          \* the page-level endpoints of the browser's tabs
ConnIds == 1..MaxConns            \* the CDP connections opened by attachAndStream
Slots == 1..MaxTasks              \* message handlers and watcher callbacks in flight
CloseSlot == 0                    \* the close handler

VARIABLES
  wsOpen,     \* wsClient.readyState === 1
  pageClient, \* `pageClient`: a connection, 0 for null
  page,       \* `page`: the Page domain of a connection, 0 for null
  currentWs,  \* `currentWs`: a target, 0 for null
  watcher,    \* `watcher`: "null", a "live" interval or a "cleared" one
  conns,      \* the CDP connections to page targets
  tasks,      \* the handlers in flight
  pages,      \* the browser's answer to /json/list, probes included
  lastStatus, \* the status message sent to the viewer in the last step, if any
  frame,      \* the frame handled in the last step, if any
  sw          \* bookkeeping since the last change of the active tab

bvars == <<wsOpen, pageClient, page, currentWs, watcher, conns, tasks, pages,
           lastStatus, frame, sw>>

VARIABLES
  res,        \* one call of findActivePageWs, followed await by await
  poll        \* one run of a DevTools polling loop, followed attempt by attempt

rvars == <<res, poll>>

vars == <<svars, bvars, rvars>>

FreeConn == [st |-> "free", target |-> 0, casting |-> FALSE, handlers |-> 0]
ClosedConn == [st |-> "closed", target |-> 0, casting |-> FALSE, handlers |-> 0]
IdleTask == [kind |-> "none", pc |-> "idle", target |-> 0, conn |-> 0]
NoFrame == [target |-> 0, ack |-> "none"]
SwOff == [on |-> FALSE, opens |-> 0, closes |-> 0, newSeen |-> FALSE, stale |-> FALSE]

\* One entry of /json/list with what the probe of evalFocus finds there.
Entry(ws, focus, visible) ==
  [type |-> "page", ws |-> ws, focus |-> focus, visible |-> visible, probeOk |-> TRUE]

AllTabs(focused, visible) ==
  [i \in Targets |-> Entry(i, i = focused, i = visible \/ i = focused)]

\* The tab lists the browser goes through: no tab, or every tab open with
\* one of them focused.
Scenes ==
  {<<>>} \cup {AllTabs(f, 0) : f \in Targets}

\* ---------------------------------------------------------------------
\* Active tab detection (server.js 156-201)
\* ---------------------------------------------------------------------
\* listPages: the entries of type "page" that have a webSocketDebuggerUrl
ListPages(list) ==
  SelectSeq(list, LAMBDA x : x.type = "page" /\ x.ws # 0)

\* evalFocus: the probe's value, {visible: false, focus: false} when it fails
EvalFocusFailVisible(p) ==
  IF p.probeOk THEN [visible |-> p.visible, focus |-> p.focus]
  ELSE [visible |-> TRUE, focus |-> FALSE]

EvalFocus(p) ==
  IF p.probeOk THEN [visible |-> p.visible, focus |-> p.focus]
  ELSE [visible |-> FALSE, focus |-> FALSE]

\* Array.prototype.find over indices: the first index of the set, 0 if it is empty
FirstOf(S) == IF S = {} THEN 0 ELSE CHOOSE i \in S : \A j \in S : i <= j

\* findActivePageWs: 0 stands for the exception of line 192
FindVisibleFirst(list) ==
  LET ps == ListPages(list)
      checks == [i \in 1..Len(ps) |-> EvalFocus(ps[i])]
      visible == FirstOf({i \in 1..Len(ps) : checks[i].visible})
  IN IF Len(ps) = 0 THEN 0
     ELSE IF visible # 0 THEN ps[visible].ws
     ELSE ps[1].ws

FindActivePageWs(list) ==
  LET ps == ListPages(list)
      checks == [i \in 1..Len(ps) |-> EvalFocus(ps[i])]
      focused == FirstOf({i \in 1..Len(ps) : checks[i].focus})
      visible == FirstOf({i \in 1..Len(ps) : checks[i].visible})
  IN IF Len(ps) = 0 THEN 0
     ELSE IF focused # 0 THEN ps[focused].ws
     ELSE IF visible # 0 THEN ps[visible].ws
     ELSE ps[1].ws

BridgeInit ==
  /\ wsOpen = TRUE
  /\ pageClient = 0
  /\ page = 0
  /\ currentWs = 0
  /\ watcher = "null"
  /\ conns = [c \in ConnIds |-> FreeConn]
  /\ tasks = [s \in Slots \cup {CloseSlot} |-> IdleTask]
  /\ pages = AllTabs(1, 0)
  /\ lastStatus = "none"
  /\ frame = NoFrame
  /\ sw = SwOff

\* ---------------------------------------------------------------------
\* send / status (server.js 259-261)
\* ---------------------------------------------------------------------
\* `wsClient.readyState === 1 && wsClient.send(...)`: what the viewer is sent
Status(m) == IF wsOpen THEN m ELSE "none"

\* What a step sends to the viewer and which frame it handles.
Out(status, fr) == lastStatus' = status /\ frame' = fr

Silent == Out("none", NoFrame)

AllSlots == Slots \cup {CloseSlot}

\* A closed connection that no variable and no pending command refers to is gone.
Gc(cs, pc, pg, ts) ==
  [c \in ConnIds |->
     IF cs[c].st = "closed" /\ c # pc /\ c # pg /\ \A s \in AllSlots : ts[s].conn # c
     THEN FreeConn ELSE cs[c]]

\* `page?.stopScreencast()` (265) is sent
StopCast(cs, pg) ==
  IF pg # 0 /\ cs[pg].st = "open" THEN [cs EXCEPT ![pg].casting = FALSE] ELSE cs

\* `pageClient?.close()` (268) is called
CloseConn(cs, pc) ==
  IF pc # 0 THEN [cs EXCEPT ![pc] = ClosedConn] ELSE cs

LowestIdle(s) == tasks[s].pc = "idle" /\ \A j \in Slots : j < s => tasks[j].pc # "idle"

LiveTargets(list) == {ListPages(list)[i].ws : i \in 1..Len(ListPages(list))}

AllIdle == \A s \in AllSlots : tasks[s].pc = "idle"

\* The bridge streams the active tab and nothing else is going on.
Steady ==
  /\ AllIdle
  /\ wsOpen
  /\ watcher = "live"
  /\ pageClient # 0
  /\ page = pageClient
  /\ {c \in ConnIds : conns[c].st = "open"} = {pageClient}
  /\ conns[pageClient].casting
  /\ conns[pageClient].target = currentWs
  /\ currentWs = FindActivePageWs(pages)

SwCount(field, yes) ==
  IF sw.on /\ yes THEN [sw EXCEPT ![field] = @ + 1] ELSE sw

\* The browser's tabs change: another tab gets the focus, the tabs lose it,
\* or they are closed, which ends the connections to them.
SwitchScene ==
  /\ \E next \in Scenes \ {pages} :
       /\ pages' = next
       /\ conns' = Gc([c \in ConnIds |->
                         IF conns[c].st = "open" /\ conns[c].target \notin LiveTargets(next)
                         THEN ClosedConn ELSE conns[c]],
                      pageClient, page, tasks)
       /\ sw' = IF Steady /\ FindActivePageWs(next) \notin {0, currentWs}
                THEN [SwOff EXCEPT !.on = TRUE] ELSE SwOff
  /\ Silent /\ UNCHANGED <<wsOpen, pageClient, page, currentWs, watcher, tasks>>

\* ---------------------------------------------------------------------
\* wsClient.on("message") (server.js 296-320)
\* ---------------------------------------------------------------------
\* A message arrives: lines 298-304 up to the call of findActivePageWs.
Message(s) ==
  /\ s \in Slots
  /\ wsOpen
  /\ LowestIdle(s)
  /\ \E m \in {"connect", "connect without wsBrowserUrl", "other"} :
       /\ tasks' = IF m = "connect"
                   THEN [tasks EXCEPT ![s] = [kind |-> "msg", pc |-> "resolve",
                                               target |-> 0, conn |-> 0]]
                   ELSE tasks
       /\ lastStatus' = IF m = "connect without wsBrowserUrl"
                        THEN Status("Errore: wsBrowserUrl") ELSE lastStatus
       /\ sw' = IF m = "other" THEN sw ELSE SwOff
  /\ frame' = NoFrame /\ UNCHANGED <<wsOpen, pageClient, page, currentWs, watcher, conns, pages>>

\* The interval of line 309 fires: line 311 calls findActivePageWs, whether
\* or not an earlier callback is still awaiting.
WatcherTick(s) ==
  /\ s \in Slots
  /\ watcher = "live"
  /\ LowestIdle(s)
  /\ tasks' = [tasks EXCEPT ![s] = [kind |-> "tick", pc |-> "resolve",
                                     target |-> 0, conn |-> 0]]
  /\ Silent /\ UNCHANGED <<wsOpen, pageClient, page, currentWs, watcher, conns, pages, sw>>

\* A command of the handler is rejected: a startScreencast (287) that the
\* browser refuses leaves its connection without a screencast.
Rejected(cs, task) ==
  IF task.pc = "start" /\ cs[task.conn].st = "open"
  THEN [cs EXCEPT ![task.conn].casting = FALSE] ELSE cs

\* The handler is left by an exception: the catch of line 317 (message) or
\* of line 313 (watcher) reports it as a status.
Fail(s) ==
  /\ tasks' = [tasks EXCEPT ![s] = IdleTask]
  /\ lastStatus' = Status(IF tasks[s].kind = "msg" THEN "Errore" ELSE "Watcher")
  /\ conns' = Gc(Rejected(conns, tasks[s]), pageClient, page, tasks')
  /\ sw' = SwOff
  /\ frame' = NoFrame /\ UNCHANGED <<wsOpen, pageClient, page, currentWs, watcher, pages>>

\* attachAndStream has returned: the message handler goes on to lines
\* 308-316 (clearInterval, setInterval), the watcher callback is done.
ReturnTo(s) ==
  /\ tasks' = [tasks EXCEPT ![s] = IdleTask]
  /\ watcher' = IF tasks[s].kind = "msg" THEN "live" ELSE watcher
  /\ conns' = Gc(conns, pageClient, page, tasks')

\* ---------------------------------------------------------------------
\* stopStream (server.js 263-271)
\* ---------------------------------------------------------------------
\* Line 270 nulls both variables and stopStream returns.  The close handler
\* is done; attachAndStream goes on to lines 276-277 and calls CDP.
StopDone(s, kind, target) ==
  /\ pageClient' = 0
  /\ page' = 0
  /\ tasks' = [tasks EXCEPT ![s] = IF kind = "close" THEN IdleTask
                                   ELSE [kind |-> kind, pc |-> "connect",
                                         target |-> target, conn |-> 0]]
  /\ lastStatus' = IF kind = "close" THEN "none" ELSE Status("Connessione")
  /\ conns' = Gc(conns, 0, 0, tasks')

\* stopStream is called.  With both variables null its two awaits are of
\* undefined and it runs to its end in the same turn of the event loop;
\* otherwise line 265 sends stopScreencast on `page` and waits for the answer.
StopStreamCall(s, kind, target) ==
  IF page = 0 /\ pageClient = 0
  THEN StopDone(s, kind, target)
  ELSE /\ tasks' = [tasks EXCEPT ![s] = [kind |-> kind, pc |-> "stop1",
                                          target |-> target, conn |-> 0]]
       /\ conns' = StopCast(conns, page)
       /\ lastStatus' = "none"
       /\ UNCHANGED <<pageClient, page>>

\* `await page?.stopScreencast()` settles; line 268 closes `pageClient`, or
\* finds it null and goes on to line 270 at once.
Stop1(s) ==
  /\ tasks[s].pc = "stop1"
  /\ IF pageClient = 0
     THEN StopDone(s, tasks[s].kind, tasks[s].target) /\ UNCHANGED sw
     ELSE /\ tasks' = [tasks EXCEPT ![s].pc = "stop2"]
          /\ conns' = CloseConn(conns, pageClient)
          /\ sw' = SwCount("closes", conns[pageClient].st = "open")
          /\ lastStatus' = "none"
          /\ UNCHANGED <<pageClient, page>>
  /\ frame' = NoFrame
  /\ UNCHANGED <<wsOpen, currentWs, watcher, pages>>

\* `await pageClient?.close()` settles.
Stop2(s) ==
  /\ tasks[s].pc = "stop2"
  /\ StopDone(s, tasks[s].kind, tasks[s].target)
  /\ frame' = NoFrame
  /\ UNCHANGED <<wsOpen, currentWs, watcher, pages, sw>>

\* ---------------------------------------------------------------------
\* The handlers' first awaits (server.js 304, 311-312, 274-275)
\* ---------------------------------------------------------------------
\* `await findActivePageWs(wsBrowserUrl)` settles (304, 311), and then line
\* 312 and line 274 decide whether stopStream is called.
Resolved(s) ==
  /\ tasks[s].pc = "resolve"
  /\ \/ Fail(s)
     \/ LET ws == FindActivePageWs(pages)
        IN /\ ws # 0
           /\ IF \/ tasks[s].kind = "tick" /\ ws = currentWs
                 \/ ws = currentWs /\ pageClient # 0
              THEN /\ ReturnTo(s)
                   /\ lastStatus' = "none"
                   /\ UNCHANGED <<pageClient, page>>
              ELSE /\ StopStreamCall(s, tasks[s].kind, ws)
                   /\ UNCHANGED watcher
           /\ frame' = NoFrame
           /\ UNCHANGED <<wsOpen, currentWs, pages, sw>>

\* ---------------------------------------------------------------------
\* attachAndStream (server.js 273-294)
\* ---------------------------------------------------------------------
\* `await CDP({target})` settles (277); lines 277-279 store the connection
\* and call page.enable().
Connected(s) ==
  /\ tasks[s].pc = "connect"
  /\ \/ Fail(s)
     \/ /\ tasks[s].target \in LiveTargets(pages)
        /\ \E c \in ConnIds :
             /\ conns[c].st = "free"
             /\ \A j \in ConnIds : j < c => conns[j].st # "free"
             /\ pageClient' = c
             /\ page' = c
             /\ tasks' = [tasks EXCEPT ![s].pc = "enable", ![s].conn = c]
             /\ conns' = Gc([conns EXCEPT ![c] = [st |-> "open", target |-> tasks[s].target,
                                                  casting |-> FALSE, handlers |-> 0]],
                            c, c, tasks')
        /\ sw' = SwCount("opens", TRUE)
        /\ Silent /\ UNCHANGED <<wsOpen, currentWs, watcher, pages>>

\* `await page.enable()` settles (279); lines 281-287 register the frame
\* handler on `page` as it is now and send startScreencast on it.  With
\* `page` null line 281 throws.
Enabled(s) ==
  /\ tasks[s].pc = "enable"
  /\ \/ Fail(s)
     \/ /\ conns[tasks[s].conn].st = "open"
        /\ page # 0
        /\ tasks' = [tasks EXCEPT ![s].pc = "start", ![s].conn = page]
        /\ conns' = Gc(IF conns[page].st = "open"
                       THEN [conns EXCEPT ![page].handlers = @ + 1, ![page].casting = TRUE]
                       ELSE conns,
                       pageClient, page, tasks')
        /\ Silent /\ UNCHANGED <<wsOpen, pageClient, page, currentWs, watcher, pages, sw>>

\* `await page.startScreencast(...)` settles (287); lines 292-293, and
\* attachAndStream returns.
Started(s) ==
  /\ tasks[s].pc = "start"
  /\ \/ Fail(s)
     \/ /\ conns[tasks[s].conn].st = "open"
        /\ currentWs' = tasks[s].target
        /\ lastStatus' = Status("In diretta")
        /\ ReturnTo(s)
        /\ frame' = NoFrame /\ UNCHANGED <<wsOpen, pageClient, page, pages, sw>>

\* The handler of lines 281-286 runs for a frame of connection c: the frame
\* is sent to the viewer and screencastFrameAck is called on `page`.
Frame(c) ==
  /\ conns[c].st = "open"
  /\ conns[c].casting
  /\ conns[c].handlers > 0
  /\ frame' = [target |-> IF wsOpen THEN conns[c].target ELSE frame.target,
               ack |-> IF page = 0 THEN "throws" ELSE IF page = c THEN "source" ELSE "other"]
  /\ sw' = IF sw.on /\ wsOpen
           THEN IF conns[c].target = FindActivePageWs(pages)
                THEN [sw EXCEPT !.newSeen = TRUE]
                ELSE [sw EXCEPT !.stale = sw.newSeen]
           ELSE sw
  /\ lastStatus' = "none" /\ UNCHANGED <<wsOpen, pageClient, page, currentWs, watcher, conns, tasks, pages>>

\* ---------------------------------------------------------------------
\* wsClient.on("close") (server.js 322-325)
\* ---------------------------------------------------------------------
\* The viewer disconnects: clearInterval(watcher), and stopStream is called.
Close ==
  /\ wsOpen
  /\ wsOpen' = FALSE
  /\ watcher' = IF watcher = "live" THEN "cleared" ELSE watcher
  /\ StopStreamCall(CloseSlot, "close", 0)
  /\ frame' = NoFrame
  /\ sw' = SwOff
  /\ UNCHANGED <<currentWs, pages>>

\* =====================================================================
\* findActivePageWs, await by await (server.js 156-201)
\* =====================================================================
\* What /json/list may hold: pages with an endpoint, whose probe finds any
\* focus and visibility or fails; a page without an endpoint; another target.
EntryKinds ==
  [type : {"page"}, hasWs : {TRUE}, focus : BOOLEAN, visible : BOOLEAN, probeOk : BOOLEAN]
    \cup {[type |-> "page", hasWs |-> FALSE, focus |-> FALSE, visible |-> FALSE,
           probeOk |-> TRUE],
          [type |-> "other", hasWs |-> TRUE, focus |-> FALSE, visible |-> FALSE,
           probeOk |-> TRUE]}

\* The list of given kinds; the endpoint of an entry is its position.
MkList(kinds) ==
  [i \in 1..Len(kinds) |->
     [Entry(IF kinds[i].hasWs THEN i ELSE 0, kinds[i].focus, kinds[i].visible)
        EXCEPT !.type = kinds[i].type, !.probeOk = kinds[i].probeOk]]

RawLists == {MkList(k) : k \in UNION {[1..n -> EntryKinds] : n \in 0..MaxList}}

NoProbe == [pc |-> "none", conn |-> "none", val |-> [visible |-> FALSE, focus |-> FALSE]]
NoOut == [st |-> "none", ws |-> 0]
IdleRes == [pc |-> "idle", raw |-> <<>>, probes |-> <<>>, out |-> NoOut]

\* How a call of findActivePageWs ends: 0 stands for the exception of line 192.
Outcome(ws) == IF ws = 0 THEN [st |-> "NoPages", ws |-> 0] ELSE [st |-> "ws", ws |-> ws]

ResInit == res = IdleRes

\* findActivePageWs is called on a browser whose /json/list holds `raw`.
ResolveStart ==
  /\ res.pc = "idle"
  /\ \E raw \in RawLists : res' = [IdleRes EXCEPT !.pc = "list", !.raw = raw]
  /\ UNCHANGED poll

\* `await listPages(browserWs)` resolves (190): lines 191-192 throw on an
\* empty list, line 194 calls evalFocus on every page otherwise, and each
\* evalFocus calls CDP (172).
ResolveListed ==
  /\ res.pc = "list"
  /\ LET ps == ListPages(res.raw)
     IN res' = IF Len(ps) = 0
               THEN [res EXCEPT !.pc = "done", !.out = Outcome(0)]
               ELSE [res EXCEPT !.pc = "probing",
                                !.probes = [i \in 1..Len(ps) |->
                                              [NoProbe EXCEPT !.pc = "connect"]]]
  /\ UNCHANGED poll

\* evalFocus returns (179, 181) and its finally block runs (182-186).
ProbeReturns(pr, val) ==
  IF pr.conn = "open"
  THEN [pc |-> "close", conn |-> "open", val |-> val]
  ELSE [pc |-> "done", conn |-> pr.conn, val |-> val]

\* `await CDP({target: wsUrl})` of probe i settles (172): connected, and
\* Runtime.enable and Runtime.evaluate are sent (174-178), or rejected.
ProbeConnected(i) ==
  /\ res.pc = "probing"
  /\ i \in DOMAIN res.probes
  /\ res.probes[i].pc = "connect"
  /\ LET p == ListPages(res.raw)[i]
     IN \/ res' = [res EXCEPT !.probes[i].pc = "evaluate", !.probes[i].conn = "open"]
        \/ /\ ~p.probeOk
           /\ res' = [res EXCEPT !.probes[i] = ProbeReturns(res.probes[i], EvalFocus(p))]
  /\ UNCHANGED poll

\* The awaits of lines 174-178 of probe i settle: the value is returned
\* (179), or the catch returns the default (181); `client.close()` is called.
ProbeEvaluated(i) ==
  /\ res.pc = "probing"
  /\ i \in DOMAIN res.probes
  /\ res.probes[i].pc = "evaluate"
  /\ res' = [res EXCEPT !.probes[i] =
                          ProbeReturns(res.probes[i], EvalFocus(ListPages(res.raw)[i]))]
  /\ UNCHANGED poll

\* `await client?.close()` of probe i settles (184).
ProbeClosed(i) ==
  /\ res.pc = "probing"
  /\ i \in DOMAIN res.probes
  /\ res.probes[i].pc = "close"
  /\ res' = [res EXCEPT !.probes[i].pc = "done", !.probes[i].conn = "closed"]
  /\ UNCHANGED poll

\* Promise.all resolves (193-195), and lines 196-200 select.
ResolveSelected ==
  /\ res.pc = "probing"
  /\ \A i \in DOMAIN res.probes : res.probes[i].pc = "done"
  /\ res' = [res EXCEPT !.pc = "done", !.out = Outcome(FindActivePageWs(res.raw))]
  /\ UNCHANGED poll

ResolveStep ==
  \/ ResolveStart
  \/ ResolveListed
  \/ \E i \in 1..MaxList : ProbeConnected(i)
  \/ \E i \in 1..MaxList : ProbeEvaluated(i)
  \/ \E i \in 1..MaxList : ProbeClosed(i)
  \/ ResolveSelected

\* =====================================================================
\* The DevTools polling loops: waitForDevtools (server.js 12-21) and the
\* loop of entrypoint.sh (25-46)
\* =====================================================================
\* A run polls a browser whose endpoint answers from attempt upAt on and
\* whose process is gone from attempt exitAt on (attempts count from 0; a
\* value of MaxAttempts is one the run never gets to).
Loops == {"waitForDevtools", "entrypoint.sh"}

IdlePoll == [pc |-> "idle", loop |-> "none", attempts |-> 0, upAt |-> 0, exitAt |-> 0,
             i |-> 0, out |-> "none"]

PollInit == poll = IdlePoll

\* `fetch(/json/version)` with r.ok (15-16); `curl` with a webSocketDebuggerUrl
\* in its answer (26-29): a process that is gone does not answer.
Answers(pl) == pl.i >= pl.upAt /\ pl.i < pl.exitAt

\* `kill -0 $BROWSER_PID` fails (entrypoint.sh 34); waitForDevtools has no
\* handle on the process and never looks.
SeesExit(pl) == pl.loop = "entrypoint.sh" /\ pl.i >= pl.exitAt

\* The loop condition (server.js 13, entrypoint.sh 25): the next attempt, or
\* the error after the loop (server.js 20, entrypoint.sh 42-45).
LoopTest(pl) ==
  IF pl.i < pl.attempts THEN [pl EXCEPT !.pc = "fetch"]
  ELSE [pl EXCEPT !.pc = "done", !.out = "Timeout"]

\* The loop is entered.
PollStart ==
  /\ poll.pc = "idle"
  /\ \E loop \in Loops, attempts \in 0..MaxAttempts, upAt \in 0..MaxAttempts,
        exitAt \in 0..MaxAttempts :
       poll' = LoopTest([IdlePoll EXCEPT !.loop = loop, !.attempts = attempts,
                                         !.upAt = upAt, !.exitAt = exitAt])
  /\ UNCHANGED res

\* The request of attempt i settles: the descriptor is returned, or the
\* process is seen to be gone, or the loop sleeps.
PollFetched ==
  /\ poll.pc = "fetch"
  /\ poll' = IF Answers(poll) THEN [poll EXCEPT !.pc = "done", !.out = "descriptor"]
             ELSE IF SeesExit(poll) THEN [poll EXCEPT !.pc = "done", !.out = "ProcessExited"]
             ELSE [poll EXCEPT !.pc = "sleep"]
  /\ UNCHANGED res

\* The sleep is over (server.js 18, entrypoint.sh 39): i++ and the loop test.
PollSlept ==
  /\ poll.pc = "sleep"
  /\ poll' = LoopTest([poll EXCEPT !.i = @ + 1])
  /\ UNCHANGED res

PollStep ==
  \/ PollStart
  \/ PollFetched
  \/ PollSlept

BridgeStep ==
  \/ SwitchScene
  \/ \E s \in Slots : Message(s)
  \/ \E s \in Slots : WatcherTick(s)
  \/ \E s \in Slots : Resolved(s)
  \/ \E s \in AllSlots : Stop1(s)
  \/ \E s \in AllSlots : Stop2(s)
  \/ \E s \in Slots : Connected(s)
  \/ \E s \in Slots : Enabled(s)
  \/ \E s \in Slots : Started(s)
  \/ \E c \in ConnIds : Frame(c)
  \/ Close

SessStep ==
  \/ \E c \in Calls : CreateStart(c, {[set |-> FALSE, val |-> FALSE]})
  \/ \E c \in Calls : CreatePort(c)
  \/ \E c \in Calls : CreateLaunched(c)
  \/ \E c \in Calls : CreatePaged(c)
  \/ \E c \in Calls : CreateProbed(c)
  \/ \E c \in Calls : CreateRegister(c)
  \/ \E k \in ApiCalls : ApiDelete(k)
  \/ \E k \in ApiCalls : ApiDeleteResume(k)
  \/ Tick
  \/ \E c \in Calls : TimerFire(c)
  \/ \E c \in Calls : TimerResume(c)
  \/ \E s \in Signals : Signal(s)
  \/ \E s \in Signals : SweepResume(s)

Init == SessInit /\ BridgeInit /\ ResInit /\ PollInit

SessNext == SessStep /\ UNCHANGED <<bvars, rvars>>

SessSpec == Init /\ [][SessNext]_vars

BridgeNext == BridgeStep /\ UNCHANGED <<svars, rvars>>

BridgeSpec == Init /\ [][BridgeNext]_vars

ResolveNext == ResolveStep /\ UNCHANGED <<svars, bvars>>

ResolveSpec == Init /\ [][ResolveNext]_vars

\* createSession alone, with every value of the stealth option.
StealthStep ==
  \/ \E c \in Calls : CreateStart(c, RawStealths)
  \/ \E c \in Calls : CreatePort(c)
  \/ \E c \in Calls : CreateLaunched(c)
  \/ \E c \in Calls : CreatePaged(c)
  \/ \E c \in Calls : CreateProbed(c)
  \/ \E c \in Calls : CreateRegister(c)

StealthNext == StealthStep /\ UNCHANGED <<bvars, rvars>>

StealthSpec == Init /\ [][StealthNext]_vars

PollNext == PollStep /\ UNCHANGED <<svars, bvars>>

PollSpec == Init /\ [][PollNext]_vars

\* The scheduling of the event loop: a settled await resumes, an expired
\* timer fires, time passes.
SessFairness ==
  /\ WF_svars(Tick)
  /\ \A c \in Calls : WF_svars(TimerFire(c)) /\ WF_svars(TimerResume(c))
  /\ \A c \in Calls : WF_svars(CreatePort(c)) /\ WF_svars(CreateLaunched(c))
                        /\ WF_svars(CreatePaged(c)) /\ WF_svars(CreateProbed(c))
                        /\ WF_svars(CreateRegister(c))
  /\ \A k \in ApiCalls : WF_svars(ApiDeleteResume(k))
  /\ \A s \in Signals : WF_svars(SweepResume(s))

SessLiveSpec == Init /\ [][SessNext]_vars /\ SessFairness

\* The call's own record is the one stored under its id.
Registered(c) ==
  /\ cpc[c] = "done"
  /\ cid[c] \in DOMAIN registry
  /\ registry[cid[c]].call = c

\* C3: every session created with durationSec = D > 0 is eventually absent
\* from the registry with its browser process asked to terminate (as long as
\* the server process itself runs).
C3_ExpiryTearsDown ==
  \A c \in Calls :
    (cpc[c] = "done" /\ copt[c].durationSec > 0)
      ~> (exited \/ (~Registered(c) /\ closeCalls[c] > 0))

ApiThreads == {"api"} \X ApiCalls
TimerThreads == {"timer"} \X Calls
SigThreads == {"sig"} \X Signals

\* C1: two DELETE requests for the same existing id, the second arriving
\* while the first awaits browser.close(), run one teardown: the second call
\* finds no session, so no two calls are ever past line 90 for the same id.
C1_OneTeardown ==
  \A t1 \in ApiThreads, t2 \in ApiThreads :
    (t1 # t2 /\ d[t1].st = "closing" /\ d[t2].st = "closing") => d[t1].id # d[t2].id

\* C2: a createSession that failed after its browser was started has
\* terminated that browser and has added no record.
C2_NoOrphanOnFailure ==
  \A c \in Calls :
    cpc[c] = "failed" => (bstate[c] # "running" /\ ~InRegistry(c))

\* C4: the record of a session created with durationSec = 0 has a null
\* timer and a null expiresAt, and leaves the registry only by the step of a
\* DELETE of its id or of the shutdown sweep that removes that id.
C4_ZeroStaysUntilDeleted ==
  /\ [](\A c \in Calls :
          (Registered(c) /\ copt[c].durationSec = 0)
            => (~registry[cid[c]].timer /\ registry[cid[c]].expiresAt = 0
                /\ timer[c].st = "none"))
  /\ [][\A c \in Calls :
          (Registered(c) /\ copt[c].durationSec = 0 /\ ~Registered(c)')
            => \E t \in ApiThreads \cup SigThreads :
                 d[t].st = "closing" /\ d[t].id = cid[c] /\ d'[t].st # "closing"]_vars

\* C5 as stated: a session created with durationSec absent has no expiry
\* timer and a null expiresAt.
C5_UnsetIsUnbounded ==
  \A c \in Calls :
    (cpc[c] = "done" /\ copt[c].durUnset)
      => (timer[c].st = "none"
          /\ (Registered(c) => (~registry[cid[c]].timer /\ registry[cid[c]].expiresAt = 0)))

\* C5 as amended: a session created with durationSec absent gets the default
\* of 3600 seconds: its expiry timer is scheduled with that delay and its
\* expiresAt is not null.
C5_UnsetUsesDefault ==
  \A c \in Calls :
    (cpc[c] = "done" /\ copt[c].durUnset)
      => (/\ copt[c].durationSec = DefaultDurationSec
          /\ timer[c].st # "none"
          /\ timer[c].left <= DefaultDurationSec
          /\ Registered(c) => (/\ registry[cid[c]].timer
                               /\ registry[cid[c]].expiresAt = DefaultDurationSec))

C5_Witness ==
  \E c \in Calls : Registered(c) /\ copt[c].durUnset /\ timer[c].st = "armed"

\* C6: a destroySession of an id that is not in the registry returns false
\* at once (the DELETE answers "not found"), calls close on no browser,
\* clears no timer and leaves the registry as it is.
C6_MissIsNoop ==
  [][(/\ reply' # reply
      /\ ~exited'
      /\ \A t \in ApiThreads : d[t].st = "closing" => d'[t].st = "closing"
      /\ reply'.id \notin DOMAIN registry)
       => (/\ reply'.status = 404
           /\ d' = d
           /\ closeCalls' = closeCalls
           /\ registry' = registry
           /\ bstate' = bstate
           /\ timer' = timer)]_vars

C6_Witness ==
  /\ reply.status = 404
  /\ reply.id \in Ids \ DOMAIN registry
  /\ \E c \in Calls : Registered(c)

\* The connections of the viewer that are open and capturing frames.
Capturing ==
  {c \in ConnIds : conns[c].st = "open" /\ conns[c].casting /\ conns[c].handlers > 0}

\* C7: in every reachable state of a viewer connection at most one CDP
\* connection with an active screencast subscription is live.
C7_OneCapture ==
  Cardinality(Capturing) <= 1

\* C8: once the viewer has disconnected and every handler has run to its
\* end, no watcher interval is scheduled and no attachment is live.
C8_CleanAfterClose ==
  (~wsOpen /\ AllIdle) => (watcher # "live" /\ Capturing = {})

\* C9: after the active tab changed from A to B while the bridge was
\* streaming A, the bridge closes at most one attachment and opens at most
\* one, exactly one of each once the watcher has settled on B, and no frame
\* of A is delivered after the first frame of B.
C9_OneCloseOneOpen ==
  sw.on =>
    /\ sw.opens <= 1
    /\ sw.closes <= 1
    /\ ~sw.stale
    /\ (AllIdle /\ currentWs = FindActivePageWs(pages)) => (sw.opens = 1 /\ sw.closes = 1)

\* C10: whenever a failure of resolution or attachment has been reported
\* to the viewer, on the connect request or on a poll, the viewer connection
\* is still open and the watcher interval is scheduled.
C10_FailureKeepsPolling ==
  lastStatus \in {"Errore", "Watcher"} => (wsOpen /\ watcher = "live")

\* The candidates of a finished resolution: the positions of /json/list
\* that hold a page with an endpoint.
Cand == {i \in 1..Len(res.raw) : res.raw[i].type = "page" /\ res.raw[i].ws # 0}

\* The probe of candidate i is the Rank(i)-th of the call.
Rank(i) == Cardinality({j \in Cand : j <= i})

Earliest(S) == CHOOSE i \in S : \A j \in S : i <= j

\* The endpoint the selection priority asks for, given which candidates
\* count as focused and which as visible.
Preferred(focused, visible) ==
  IF focused # {} THEN res.raw[Earliest(focused)].ws
  ELSE IF visible # {} THEN res.raw[Earliest(visible)].ws
  ELSE res.raw[Earliest(Cand)].ws

\* C11: a finished resolution fails with NoPages exactly when there is no
\* page candidate; otherwise it returns the endpoint of the first candidate
\* whose probe result has focus, else of the first whose probe result is
\* visible, else of the first candidate.
C11_SelectionPriority ==
  res.pc = "done" =>
    /\ (res.out.st = "NoPages") <=> (Cand = {})
    /\ Cand # {} =>
         /\ res.out.st = "ws"
         /\ res.out.ws = Preferred({i \in Cand : res.probes[Rank(i)].val.focus},
                                   {i \in Cand : res.probes[Rank(i)].val.visible})

\* A focused page that comes after a visible one, behind a target that is no page.
C11_Witness ==
  /\ res.pc = "done"
  /\ Len(res.raw) = 3
  /\ res.raw[1].type = "other"
  /\ res.raw[2].visible /\ ~res.raw[2].focus /\ res.raw[2].probeOk
  /\ res.raw[3].focus /\ res.raw[3].probeOk
  /\ res.out = [st |-> "ws", ws |-> 3]

\* C18: a probe that fails counts as neither visible nor focused, for its
\* own candidate only; the resolution still selects among all candidates by
\* the priority, and no probe that has returned has left its connection open.
C18_FailedProbeIsNotFatal ==
  /\ res.pc \in {"probing", "done"} =>
       \A k \in DOMAIN res.probes :
         res.probes[k].pc = "done" => res.probes[k].conn \in {"none", "closed"}
  /\ (res.pc = "done" /\ Cand # {}) =>
       /\ \A i \in Cand :
            res.probes[Rank(i)].val =
              IF res.raw[i].probeOk
              THEN [visible |-> res.raw[i].visible, focus |-> res.raw[i].focus]
              ELSE [visible |-> FALSE, focus |-> FALSE]
       /\ res.out.st = "ws"
       /\ res.out.ws = Preferred({i \in Cand : res.raw[i].probeOk /\ res.raw[i].focus},
                                 {i \in Cand : res.raw[i].probeOk /\ res.raw[i].visible})

\* The probe of a focused first page failed after it had connected, and the
\* visible second page was selected.
C18_Witness ==
  /\ res.pc = "done"
  /\ Len(res.raw) >= 2
  /\ Cand = 1..Len(res.raw)
  /\ ~res.raw[1].probeOk /\ res.raw[1].focus
  /\ res.probes[1].conn = "closed"
  /\ res.raw[2].probeOk /\ res.raw[2].visible /\ ~res.raw[2].focus
  /\ res.out = [st |-> "ws", ws |-> 2]

\* The sessions that were live when the signal of a handler arrived.
LiveAtSignal ==
  IF \E s \in Signals : sweep[s].st = "running"
  THEN UNION {sweep[s].live : s \in {x \in Signals : sweep[x].st = "running"}}
  ELSE LiveSessions

\* C12: when the signal handler calls process.exit, every session that was
\* live when the signal arrived has had browser.close() called on its browser.
C12_SweepClosesAll ==
  [][(exited' /\ ~exited) => \A c \in LiveAtSignal : closeCalls'[c] > 0]_vars

\* C13: a createSession whose fixed port is held by the browser of a
\* registered session fails at the launch and leaves no browser running, and
\* no createSession replaces the record of another session.
C13_PortConflict ==
  [][/\ \A c \in Calls :
          (/\ cpc[c] = "launch"
           /\ cpc'[c] # "launch"
           /\ PortOwner(cport[c]) # 0
           /\ Registered(PortOwner(cport[c])))
            => (cpc'[c] = "failed" /\ bstate'[c] # "running")
     /\ \A c \in Calls :
          (cpc[c] = "pid" /\ cpc'[c] = "done")
            => \A i \in DOMAIN registry : registry'[i] = registry[i]]_vars

\* C14: the callback of an expiry timer never starts a teardown of a session
\* that a destroySession is already tearing down (the timer was cancelled
\* before browser.close() was called).
C14_TimerCancelledFirst ==
  [][\A c \in Calls :
       (d[<<"timer", c>>].st # "closing" /\ d'[<<"timer", c>>].st = "closing")
         => ~\E t \in Threads : d[t].st = "closing" /\ d[t].rec = d'[<<"timer", c>>].rec]_vars

\* C15: a record that is in the registry belongs to a browser that was
\* started and on which browser.close() has not been called.
C15_RegistryMeansLive ==
  ~exited =>
    \A i \in DOMAIN registry :
      bstate[registry[i].call] = "running" /\ closeCalls[registry[i].call] = 0

\* C16: a frame that is handled is acknowledged on the connection it came
\* from, and by one handler only.
C16_AckToSource ==
  /\ frame # NoFrame => frame.ack = "source"
  /\ \A c \in Capturing : conns[c].handlers = 1

\* C19: whenever no handler of an open viewer connection is in flight and
\* the bridge records a current target, the bridge holds an attachment.
C19_CurrentMeansAttached ==
  (AllIdle /\ wsOpen /\ currentWs # 0) => pageClient # 0

\* C17: a polling loop that has ended returned the descriptor at the first
\* attempt that was answered, or ended with ProcessExited at the first attempt
\* at which the process was gone, or ended with Timeout after all its
\* attempts; it never made more attempts than it was given.
C17_PollOutcome ==
  /\ poll.i <= poll.attempts
  /\ poll.pc = "done" =>
       IF poll.upAt < poll.attempts /\ poll.upAt < poll.exitAt
       THEN poll.out = "descriptor" /\ poll.i = poll.upAt
       ELSE IF poll.exitAt < poll.attempts
       THEN poll.out = "ProcessExited" /\ poll.i = poll.exitAt
       ELSE poll.out = "Timeout" /\ poll.i = poll.attempts

\* C20: every browser that was launched runs with the stealth plugin exactly
\* when the stealth option of its own request, default applied, is true.
C20_StealthPerRequest ==
  \A c \in Calls :
    cpc[c] \in {"page", "probe", "pid", "done"} => (bstealth[c] = copt[c].stealth)

====
